---- MODULE Spec2Model ----
(***************************************************************************)
(* DeviceDescriptor / DeviceVector of the audio policy manager             *)
(* (services/audiopolicy/common/managerdefinitions/src/DeviceDescriptor.cpp)*)
(*                                                                         *)
(* A device record is an object of a fixed catalogue; its identity fields  *)
(* (type, address, encoded formats) are set at construction, its id and    *)
(* module change with attach/detach.  One DeviceVector, vec, is mutated by *)
(* add/remove/replaceDevicesByType and queried by the get..., filter and   *)
(* contains... methods (Spec).  RecordSpec runs the methods of the records *)
(* alone: equals, supportsFormat, hasCurrentEncodedFormat and the setter   *)
(* of the current encoded format.                                          *)
(*                                                                         *)
(* audio_devices_t is a 32-bit mask whose top bit is the direction bit.    *)
(* A mask is modelled as the set of the positions (0..31) of its set bits: *)
(* | is union, & is intersection, ~ is the complement in 0..31 and the     *)
(* unsigned order is decided by the highest bit in which two masks differ. *)
(* Strings are sequences of character codes, compared as std::string       *)
(* compares them.                                                          *)
(***************************************************************************)
EXTENDS Integers, Sequences, FiniteSets, TLC

VARIABLES
    heap,            \* the device records of this run, in the order of their addresses
    mId,             \* DeviceDescriptor::mId of every record
    mModule,         \* PolicyAudioPort::mModule of every record (0: none)
    mCurrentEncodedFormat, \* DeviceDescriptor::mCurrentEncodedFormat of every record
    mNextUniqueId,   \* the process-wide id allocator
    issued,          \* history: the ids handed out so far
    vec,             \* the DeviceVector: [items, mDeviceTypes]
    op,              \* the call that has just returned and its arguments, or NoCall
    ret,             \* the last call's integer result
    found,           \* the last call's sp<DeviceDescriptor> result (0: null)
    out,             \* the last call's DeviceVector result
    flag,            \* the last call's bool result
    refreshes        \* history: the runs of vec.refreshTypes() during the last call

vars == <<heap, mId, mModule, mCurrentEncodedFormat, mNextUniqueId, issued, vec,
          op, ret, found, out, flag, refreshes>>

---------------------------------------------------------------------------
(* Bounds of the model *)

\* attach is not modelled once the allocator has handed out MaxId ids
MaxId == 2
\* the longest record list an argument collection is built from
MaxArg == 2

---------------------------------------------------------------------------
(* Program constants *)

AUDIO_PORT_HANDLE_NONE == 0
AUDIO_MODULE_HANDLE_NONE == 0
AUDIO_FORMAT_DEFAULT == 0
AUDIO_FORMAT_PCM_16_BIT == 1
AUDIO_FORMAT_AC3 == 150994944
AUDIO_FORMAT_IEC61937 == 218103808
\* the result of a failed ssize_t call (NAME_NOT_FOUND is any negative value)
NOT_FOUND == -1

\* audio_devices_t values, as sets of bit positions
AUDIO_DEVICE_NONE == {}
AUDIO_DEVICE_BIT_IN == {31}
AUDIO_DEVICE_OUT_SPEAKER == {1}
AUDIO_DEVICE_OUT_WIRED_HEADSET == {2}
AUDIO_DEVICE_OUT_BLUETOOTH_A2DP == {7}
AUDIO_DEVICE_OUT_BLUETOOTH_A2DP_HEADPHONES == {8}
AUDIO_DEVICE_OUT_BLUETOOTH_A2DP_SPEAKER == {9}
AUDIO_DEVICE_OUT_HDMI == {10}
AUDIO_DEVICE_OUT_REMOTE_SUBMIX == {15}
AUDIO_DEVICE_IN_BUILTIN_MIC == AUDIO_DEVICE_BIT_IN \cup {2}
AUDIO_DEVICE_IN_REMOTE_SUBMIX == AUDIO_DEVICE_BIT_IN \cup {8}

---------------------------------------------------------------------------
(* Bit masks and strings *)

BitPositions == 0..31

\* a & b
BitAnd(a, b) == a \cap b

\* a | b
BitOr(a, b) == a \cup b

\* ~a
BitNot(a) == BitPositions \ a

\* a < b on unsigned masks: b holds the highest bit in which they differ
MaskLess(a, b) ==
    LET top(D) == D # {} /\ (CHOOSE i \in D : \A j \in D : j <= i) \in b
    IN  top((a \ b) \cup (b \ a))

\* strictly_order_type(lhs, rhs) on masks
strictly_order_mask(lhs, rhs) == IF MaskLess(lhs, rhs) THEN 1 ELSE 0

\* strictly_order_type(lhs, rhs) on integers: lhs < rhs as 0/1
strictly_order_type(lhs, rhs) == IF lhs < rhs THEN 1 ELSE 0

\* operator< of std::string: lexicographic on the character codes
RECURSIVE StrLess(_, _)
StrLess(s, t) ==
    IF t = <<>> THEN FALSE
    ELSE IF s = <<>> THEN TRUE
    ELSE IF Head(s) # Head(t) THEN Head(s) < Head(t)
    ELSE StrLess(Tail(s), Tail(t))

\* strictly_order_type(lhs, rhs) on strings
strictly_order_str(lhs, rhs) == IF StrLess(lhs, rhs) THEN 1 ELSE 0

EmptyStr == <<>>
Str0 == <<48>>
Str1 == <<49>>
StrX == <<88>>

\* audio_is_output_devices(device)
audio_is_output_devices(device) == BitAnd(device, AUDIO_DEVICE_BIT_IN) = {}

---------------------------------------------------------------------------
(* Device records *)

\* DeviceDescriptor::DeviceDescriptor(type, encodedFormats, tagName), followed
\* by setAddress(address)
DeviceDescriptor(type, encodedFormats, tagName, address) ==
    [mDeviceType |-> type,
     mTagName |-> tagName,
     mAddress |-> address,
     mEncodedFormats |->
        IF type = AUDIO_DEVICE_OUT_HDMI /\ encodedFormats = <<>>
        THEN <<AUDIO_FORMAT_AC3, AUDIO_FORMAT_IEC61937>>
        ELSE encodedFormats]

\* The arguments the records are constructed with.  A record's position is its
\* object identity.
Config ==
    << <<AUDIO_DEVICE_OUT_SPEAKER, <<>>, "spk", EmptyStr>>,
       <<AUDIO_DEVICE_OUT_SPEAKER, <<>>, "spkX", StrX>>,
       <<AUDIO_DEVICE_OUT_SPEAKER, <<>>, "spk2", EmptyStr>>,
       <<AUDIO_DEVICE_OUT_WIRED_HEADSET, <<>>, "hs", EmptyStr>>,
       <<AUDIO_DEVICE_IN_BUILTIN_MIC, <<>>, "mic", EmptyStr>>,
       <<AUDIO_DEVICE_OUT_HDMI, <<>>, "hdmi", EmptyStr>>,
       <<AUDIO_DEVICE_OUT_HDMI,
         <<AUDIO_FORMAT_IEC61937, AUDIO_FORMAT_AC3, AUDIO_FORMAT_IEC61937>>, "hdmi2",
         EmptyStr>>,
       <<AUDIO_DEVICE_OUT_HDMI, <<AUDIO_FORMAT_PCM_16_BIT>>, "hdmiPcm", EmptyStr>>,
       <<AUDIO_DEVICE_OUT_REMOTE_SUBMIX, <<>>, "rsx0", Str0>>,
       <<AUDIO_DEVICE_OUT_REMOTE_SUBMIX, <<>>, "rsx1", Str1>>,
       <<AUDIO_DEVICE_IN_REMOTE_SUBMIX, <<>>, "rsxIn", Str0>>,
       <<AUDIO_DEVICE_OUT_BLUETOOTH_A2DP, <<AUDIO_FORMAT_AC3>>, "a2dp", EmptyStr>>,
       <<AUDIO_DEVICE_OUT_BLUETOOTH_A2DP, <<>>, "a2dpAny", StrX>> >>

\* The records a run can hold, as their constructor leaves them
Catalogue ==
    [d \in DOMAIN Config |->
        DeviceDescriptor(Config[d][1], Config[d][2], Config[d][3], Config[d][4])]

Dev == 1..Len(Catalogue)

type(d) == Catalogue[d].mDeviceType
address(d) == Catalogue[d].mAddress
encodedFormats(d) == Catalogue[d].mEncodedFormats

\* the records created together in one run, in the order of their addresses
Pools ==
    { <<1, 2, 3>>, <<3, 4, 5>>, <<6, 7, 8>>, <<8, 7, 6>>, <<9, 10, 11>>, <<4, 9, 10>> }

\* the records created together in a run that only uses the records themselves
RecordPools == { <<1, 2, 3>>, <<6, 7, 8>>, <<12, 13, 6>> }

\* the records of this run
live == {heap[i] : i \in DOMAIN heap}

\* checkEqual that compares the vectors themselves
checkEqual_asVectors(f1, f2) == f1 = f2

\* checkEqual(f1, f2): equal as sets
checkEqual(f1, f2) ==
    {f1[i] : i \in DOMAIN f1} = {f2[i] : i \in DOMAIN f2}

\* DeviceDescriptor::equals(other); other = 0 is the null reference
equals(d, other) ==
    IF other = 0 THEN FALSE
    ELSE /\ type(d) = type(other)
         /\ address(d) = address(other)
         /\ checkEqual(encodedFormats(d), encodedFormats(other))

\* DeviceDescriptor::supportsFormat(format)
supportsFormat(d, format) ==
    IF encodedFormats(d) = <<>> THEN TRUE
    ELSE \E i \in DOMAIN encodedFormats(d) : encodedFormats(d)[i] = format

\* device_has_encoding_capability(device) of system/audio.h: the A2DP outputs
device_has_encoding_capability(device) ==
    \/ device = AUDIO_DEVICE_OUT_BLUETOOTH_A2DP
    \/ device = AUDIO_DEVICE_OUT_BLUETOOTH_A2DP_HEADPHONES
    \/ device = AUDIO_DEVICE_OUT_BLUETOOTH_A2DP_SPEAKER

\* DeviceDescriptor::hasCurrentEncodedFormat()
hasCurrentEncodedFormat(d) ==
    IF ~device_has_encoding_capability(type(d)) THEN TRUE
    ELSE IF encodedFormats(d) = <<>> THEN TRUE
    ELSE mCurrentEncodedFormat[d] # AUDIO_FORMAT_DEFAULT

\* audio_is_remote_submix_device(device) of system/audio.h
audio_is_remote_submix_device(device) ==
    \/ device = AUDIO_DEVICE_OUT_REMOTE_SUBMIX
    \/ device = AUDIO_DEVICE_IN_REMOTE_SUBMIX

\* PolicyAudioPort::getModuleHandle(): the handle of the module attached to
getModuleHandle(d) == mModule[d]

---------------------------------------------------------------------------
(* DeviceVector *)

\* DeviceVector(): no items, mDeviceTypes(AUDIO_DEVICE_NONE)
EmptyVector == [items |-> <<>>, mDeviceTypes |-> AUDIO_DEVICE_NONE]

\* the loop of refreshTypes from position i on
RECURSIVE refreshTypesFrom(_, _, _)
refreshTypesFrom(items, i, acc) ==
    IF i > Len(items) THEN acc
    ELSE refreshTypesFrom(items, i + 1, BitOr(acc, type(items[i])))

\* DeviceVector::refreshTypes()
refreshTypes(v) ==
    [v EXCEPT !.mDeviceTypes = refreshTypesFrom(v.items, 1, AUDIO_DEVICE_NONE)]

\* DeviceVector::indexOf(item): the first position (from 0) of an equal member
indexOf(v, item) ==
    LET first(S) == IF S = {} THEN NOT_FOUND
                    ELSE (CHOOSE i \in S : \A j \in S : i <= j) - 1
    IN  first({i \in 1..Len(v.items) : equals(v.items[i], item)})

\* the address of the object a reference points to
ptr(d) == CHOOSE i \in DOMAIN heap : heap[i] = d

\* SortedVector<sp<T>>::do_compare: compare_type on the references
SortedVector_do_compare(l, r) ==
    strictly_order_type(ptr(r), ptr(l)) - strictly_order_type(ptr(l), ptr(r))

\* do_compare without the fallback to the object addresses
do_compare_noFallback(l, r) ==
    LET compare(ltype, rtype, laddr, raddr, lId, rId) ==
            IF ltype # rtype
            THEN strictly_order_mask(rtype, ltype) - strictly_order_mask(ltype, rtype)
            ELSE IF (lId # 0 \/ rId # 0) /\ lId # rId
            THEN strictly_order_type(lId, rId) - strictly_order_type(rId, lId)
            ELSE IF (laddr # EmptyStr \/ raddr # EmptyStr) /\ laddr # raddr
            THEN strictly_order_str(laddr, raddr) - strictly_order_str(raddr, laddr)
            ELSE 0
    IN  compare(type(l), type(r), address(l), address(r), mId[l], mId[r])

\* DeviceVector::do_compare(lhs, rhs)
do_compare(l, r) ==
    LET compare(ltype, rtype, laddr, raddr, lId, rId) ==
            IF ltype # rtype
            THEN strictly_order_mask(rtype, ltype) - strictly_order_mask(ltype, rtype)
            ELSE IF (lId # 0 \/ rId # 0) /\ lId # rId
            THEN strictly_order_type(lId, rId) - strictly_order_type(rId, lId)
            ELSE IF (laddr # EmptyStr \/ raddr # EmptyStr) /\ laddr # raddr
            THEN strictly_order_str(laddr, raddr) - strictly_order_str(raddr, laddr)
            ELSE SortedVector_do_compare(l, r)
    IN  compare(type(l), type(r), address(l), address(r), mId[l], mId[r])

\* SortedVectorImpl::_indexOrderOf(item, &order): binary search on [l, h]
RECURSIVE indexOrderOf(_, _, _, _)
indexOrderOf(items, item, l, h) ==
    LET step(mid, c) ==
            IF c = 0 THEN [index |-> mid, order |-> mid]
            ELSE IF c < 0 THEN indexOrderOf(items, item, mid + 1, h)
            ELSE indexOrderOf(items, item, l, mid - 1)
    IN  IF l > h THEN [index |-> NOT_FOUND, order |-> l]
        ELSE step(l + (h - l) \div 2, do_compare(items[l + (h - l) \div 2 + 1], item))

\* VectorImpl::insertAt(item, index)
insertAt(items, item, index) ==
    SubSeq(items, 1, index) \o <<item>> \o SubSeq(items, index + 1, Len(items))

\* VectorImpl::removeAt(index)
removeAt(items, index) ==
    SubSeq(items, 1, index) \o SubSeq(items, index + 2, Len(items))

\* SortedVector::add(item): [items, index]
SortedVector_add(items, item) ==
    LET place(r) ==
            IF r.index < 0
            THEN [items |-> insertAt(items, item, r.order), index |-> r.order]
            ELSE [items |-> [items EXCEPT ![r.index + 1] = item], index |-> r.index]
    IN  place(indexOrderOf(items, item, 0, Len(items) - 1))

\* add(item) that forgets to turn the position of the equal member into -1
add_keepsIndex(v, item) ==
    LET refreshed(w, index) ==
            [vec |-> IF index >= 0 THEN refreshTypes(w) ELSE w, ret |-> index,
             refreshes |-> IF index >= 0 THEN 1 ELSE 0]
        inserted(r) == refreshed([v EXCEPT !.items = r.items], r.index)
    IN  IF indexOf(v, item) < 0
        THEN inserted(SortedVector_add(v.items, item))
        ELSE [vec |-> v, ret |-> indexOf(v, item), refreshes |-> 0]

\* DeviceVector::add(item): [vec, ret] and the number of runs of refreshTypes
add(v, item) ==
    LET refreshed(w, index) ==
            [vec |-> IF index >= 0 THEN refreshTypes(w) ELSE w, ret |-> index,
             refreshes |-> IF index >= 0 THEN 1 ELSE 0]
        inserted(r) == refreshed([v EXCEPT !.items = r.items], r.index)
    IN  IF indexOf(v, item) < 0
        THEN inserted(SortedVector_add(v.items, item))
        ELSE [vec |-> v, ret |-> -1, refreshes |-> 0]

\* the loop of add(devices) without the indexOf test
RECURSIVE addFrom_noIndexOf(_, _, _, _)
addFrom_noIndexOf(v, devices, i, added) ==
    LET inserted(r) ==
            addFrom_noIndexOf([v EXCEPT !.items = r.items], devices, i + 1,
                              added \/ r.index >= 0)
    IN  IF i > Len(devices.items) THEN [vec |-> v, added |-> added]
        ELSE inserted(SortedVector_add(v.items, devices.items[i]))

\* the loop of add(devices) from position i on: [vec, added]
RECURSIVE addFrom(_, _, _, _)
addFrom(v, devices, i, added) ==
    LET inserted(r) ==
            addFrom([v EXCEPT !.items = r.items], devices, i + 1, added \/ r.index >= 0)
    IN  IF i > Len(devices.items) THEN [vec |-> v, added |-> added]
        ELSE IF indexOf(v, devices.items[i]) < 0
        THEN inserted(SortedVector_add(v.items, devices.items[i]))
        ELSE addFrom(v, devices, i + 1, added)

\* add(devices) that leaves the cached mask as it was
add_devices_noRefresh(v, devices) ==
    LET finish(r) == [vec |-> r.vec, refreshes |-> 0]
    IN  finish(addFrom(v, devices, 1, FALSE))

\* DeviceVector::add(devices): [vec] and the number of runs of refreshTypes
add_devices(v, devices) ==
    LET finish(r) ==
            IF r.added THEN [vec |-> refreshTypes(r.vec), refreshes |-> 1]
            ELSE [vec |-> r.vec, refreshes |-> 0]
    IN  finish(addFrom(v, devices, 1, FALSE))

\* remove(item) that does not refresh the cached mask
remove_noRefresh(v, item) ==
    LET removed(ret0) ==
            IF ret0 < 0
            THEN [vec |-> v, ret |-> ret0, refreshes |-> 0]
            ELSE [vec |-> [v EXCEPT !.items = removeAt(v.items, ret0)], ret |-> ret0,
                  refreshes |-> 0]
    IN  removed(indexOf(v, item))

\* remove(item) that takes out the first member whenever an equal one is found
remove_atZero(v, item) ==
    LET removed(ret0) ==
            IF ret0 < 0
            THEN [vec |-> v, ret |-> ret0, refreshes |-> 0]
            ELSE [vec |-> refreshTypes([v EXCEPT !.items = removeAt(v.items, 0)]),
                  ret |-> ret0, refreshes |-> 1]
    IN  removed(indexOf(v, item))

\* DeviceVector::remove(item): [vec, ret] and the number of runs of refreshTypes
remove(v, item) ==
    LET removed(ret0) ==
            IF ret0 < 0
            THEN [vec |-> v, ret |-> ret0, refreshes |-> 0]
            ELSE [vec |-> refreshTypes([v EXCEPT !.items = removeAt(v.items, ret0)]),
                  ret |-> ret0, refreshes |-> 1]
    IN  removed(indexOf(v, item))

\* the loop of remove(devices) from position i on; n counts the runs of
\* refreshTypes so far
RECURSIVE removeFrom(_, _, _, _)
removeFrom(v, devices, i, n) ==
    LET next(r) == removeFrom(r.vec, devices, i + 1, n + r.refreshes)
    IN  IF i > Len(devices.items) THEN [vec |-> v, refreshes |-> n]
        ELSE next(remove(v, devices.items[i]))

\* DeviceVector::remove(devices): [vec] and the number of runs of refreshTypes
remove_devices(v, devices) == removeFrom(v, devices, 1, 0)

\* the loop of getDevice that wants the address to agree for a given format too
RECURSIVE getDeviceFrom_addressToo(_, _, _, _, _, _)
getDeviceFrom_addressToo(v, i, t, addr, format, device) ==
    IF i > Len(v.items) THEN device
    ELSE LET it == v.items[i]
         IN  IF /\ type(it) = t
                /\ (addr = EmptyStr \/ address(it) = addr)
                /\ \/ format = AUDIO_FORMAT_DEFAULT
                   \/ supportsFormat(it, format)
             THEN IF address(it) = addr THEN it
                  ELSE getDeviceFrom_addressToo(v, i + 1, t, addr, format, it)
             ELSE getDeviceFrom_addressToo(v, i + 1, t, addr, format, device)

\* the loop of getDevice from position i on; device is the match so far
RECURSIVE getDeviceFrom(_, _, _, _, _, _)
getDeviceFrom(v, i, t, addr, format, device) ==
    IF i > Len(v.items) THEN device
    ELSE LET it == v.items[i]
         IN  IF /\ type(it) = t
                /\ \/ /\ (addr = EmptyStr \/ address(it) = addr)
                      /\ format = AUDIO_FORMAT_DEFAULT
                   \/ /\ supportsFormat(it, format)
                      /\ format # AUDIO_FORMAT_DEFAULT
             THEN IF address(it) = addr THEN it
                  ELSE getDeviceFrom(v, i + 1, t, addr, format, it)
             ELSE getDeviceFrom(v, i + 1, t, addr, format, device)

\* DeviceVector::getDevice(type, address, format); 0 is the null reference
getDevice(v, t, addr, format) == getDeviceFrom(v, 1, t, addr, format, 0)

\* the loop of getDevicesFromTypeMask without the comparison of the directions
RECURSIVE typeMaskFrom_anyDirection(_, _, _, _, _)
typeMaskFrom_anyDirection(v, i, isOutput, t, devices) ==
    IF ~(i <= Len(v.items) /\ t # AUDIO_DEVICE_NONE) THEN devices
    ELSE IF BitAnd(t, BitAnd(type(v.items[i]), BitNot(AUDIO_DEVICE_BIT_IN))) # {}
         THEN typeMaskFrom_anyDirection(v, i + 1, isOutput, t,
                                        add(devices, v.items[i]).vec)
         ELSE typeMaskFrom_anyDirection(v, i + 1, isOutput, t, devices)

\* the loop of getDevicesFromTypeMask from position i on
RECURSIVE typeMaskFrom(_, _, _, _, _)
typeMaskFrom(v, i, isOutput, t, devices) ==
    IF ~(i <= Len(v.items) /\ t # AUDIO_DEVICE_NONE) THEN devices
    ELSE IF /\ isOutput = audio_is_output_devices(type(v.items[i]))
            /\ BitAnd(t, BitAnd(type(v.items[i]), BitNot(AUDIO_DEVICE_BIT_IN))) # {}
         THEN typeMaskFrom(v, i + 1, isOutput, t, add(devices, v.items[i]).vec)
         ELSE typeMaskFrom(v, i + 1, isOutput, t, devices)

\* DeviceVector::getDevicesFromTypeMask(type)
getDevicesFromTypeMask(v, t) ==
    typeMaskFrom(v, 1, audio_is_output_devices(t),
                 BitAnd(t, BitNot(AUDIO_DEVICE_BIT_IN)), EmptyVector)

\* DeviceVector::getFirstExistingDevice(orderedTypes)
RECURSIVE getFirstExistingDevice(_, _)
getFirstExistingDevice(v, orderedTypes) ==
    LET try(device) ==
            IF device # 0 THEN device
            ELSE getFirstExistingDevice(v, Tail(orderedTypes))
    IN  IF orderedTypes = <<>> THEN 0
        ELSE try(getDevice(v, Head(orderedTypes), EmptyStr, AUDIO_FORMAT_DEFAULT))

\* replaceDevicesByType that does not test devicesToRemove.isEmpty()
replaceDevicesByType_noTest(v, typeToRemove, devicesToAdd) ==
    LET added(removed, r) ==
            [vec |-> r.vec, refreshes |-> removed.refreshes + r.refreshes]
        adding(removed) == added(removed, add_devices(removed.vec, devicesToAdd))
        replace(devicesToRemove) ==
            IF devicesToAdd.items # <<>>
            THEN adding(remove_devices(v, devicesToRemove))
            ELSE [vec |-> v, refreshes |-> 0]
    IN  replace(getDevicesFromTypeMask(v, typeToRemove))

\* DeviceVector::replaceDevicesByType(typeToRemove, devicesToAdd): [vec] and the
\* number of runs of refreshTypes
replaceDevicesByType(v, typeToRemove, devicesToAdd) ==
    LET added(removed, r) ==
            [vec |-> r.vec, refreshes |-> removed.refreshes + r.refreshes]
        adding(removed) == added(removed, add_devices(removed.vec, devicesToAdd))
        replace(devicesToRemove) ==
            IF devicesToRemove.items # <<>> /\ devicesToAdd.items # <<>>
            THEN adding(remove_devices(v, devicesToRemove))
            ELSE [vec |-> v, refreshes |-> 0]
    IN  replace(getDevicesFromTypeMask(v, typeToRemove))

\* DeviceVector::contains(item)
contains(v, item) == indexOf(v, item) >= 0

\* the loop of filter that keeps the members devices does not contain
RECURSIVE filterFrom_complement(_, _, _, _)
filterFrom_complement(v, devices, i, filteredDevices) ==
    IF i > Len(v.items) THEN filteredDevices
    ELSE IF ~contains(devices, v.items[i])
         THEN filterFrom_complement(v, devices, i + 1,
                                    add(filteredDevices, v.items[i]).vec)
         ELSE filterFrom_complement(v, devices, i + 1, filteredDevices)

\* the loop of filter from position i on
RECURSIVE filterFrom(_, _, _, _)
filterFrom(v, devices, i, filteredDevices) ==
    IF i > Len(v.items) THEN filteredDevices
    ELSE IF contains(devices, v.items[i])
         THEN filterFrom(v, devices, i + 1, add(filteredDevices, v.items[i]).vec)
         ELSE filterFrom(v, devices, i + 1, filteredDevices)

\* DeviceVector::filter(devices)
filter(v, devices) == filterFrom(v, devices, 1, EmptyVector)

\* DeviceVector::containsAtLeastOne(devices)
containsAtLeastOne(v, devices) == filter(v, devices).items # <<>>

\* containsAllDevices that compares with the size of the receiver
containsAllDevices_ownSize(v, devices) ==
    Len(filter(v, devices).items) = Len(v.items)

\* DeviceVector::containsAllDevices(devices)
containsAllDevices(v, devices) ==
    Len(filter(v, devices).items) = Len(devices.items)

\* the loop of filterForEngine that drops every remote submix member
RECURSIVE engineFrom_dropsAll(_, _, _)
engineFrom_dropsAll(v, i, filteredDevices) ==
    IF i > Len(v.items) THEN filteredDevices
    ELSE IF audio_is_remote_submix_device(type(v.items[i]))
         THEN engineFrom_dropsAll(v, i + 1, filteredDevices)
         ELSE engineFrom_dropsAll(v, i + 1, add(filteredDevices, v.items[i]).vec)

\* the loop of filterForEngine from position i on
RECURSIVE engineFrom(_, _, _)
engineFrom(v, i, filteredDevices) ==
    IF i > Len(v.items) THEN filteredDevices
    ELSE IF /\ audio_is_remote_submix_device(type(v.items[i]))
            /\ address(v.items[i]) # Str0
         THEN engineFrom(v, i + 1, filteredDevices)
         ELSE engineFrom(v, i + 1, add(filteredDevices, v.items[i]).vec)

\* DeviceVector::filterForEngine()
filterForEngine(v) == engineFrom(v, 1, EmptyVector)

\* the loop of getDevicesFromHwModule that appends to the items without add
RECURSIVE hwModuleFrom_rawAppend(_, _, _, _)
hwModuleFrom_rawAppend(v, i, moduleHandle, devices) ==
    IF i > Len(v.items) THEN devices
    ELSE IF getModuleHandle(v.items[i]) = moduleHandle
         THEN hwModuleFrom_rawAppend(v, i + 1, moduleHandle,
                  [devices EXCEPT !.items = Append(devices.items, v.items[i])])
         ELSE hwModuleFrom_rawAppend(v, i + 1, moduleHandle, devices)

\* the loop of getDevicesFromHwModule from position i on
RECURSIVE hwModuleFrom(_, _, _, _)
hwModuleFrom(v, i, moduleHandle, devices) ==
    IF i > Len(v.items) THEN devices
    ELSE IF getModuleHandle(v.items[i]) = moduleHandle
         THEN hwModuleFrom(v, i + 1, moduleHandle, add(devices, v.items[i]).vec)
         ELSE hwModuleFrom(v, i + 1, moduleHandle, devices)

\* DeviceVector::getDevicesFromHwModule(moduleHandle)
getDevicesFromHwModule(v, moduleHandle) ==
    hwModuleFrom(v, 1, moduleHandle, EmptyVector)

\* DeviceVector::getFirstDevicesFromTypes(orderedTypes)
RECURSIVE getFirstDevicesFromTypes(_, _)
getFirstDevicesFromTypes(v, orderedTypes) ==
    LET try(devices) ==
            IF devices.items # <<>> THEN devices
            ELSE getFirstDevicesFromTypes(v, Tail(orderedTypes))
    IN  IF orderedTypes = <<>> THEN EmptyVector
        ELSE try(getDevicesFromTypeMask(v, Head(orderedTypes)))

---------------------------------------------------------------------------
(* Inputs of the calls *)

\* the lists of at most n different records of S
RECURSIVE Lists(_, _)
Lists(S, n) ==
    IF n = 0 THEN {<<>>}
    ELSE LET longer(shorter) == shorter \cup {Append(l, d) : l \in shorter, d \in S}
         IN  longer(Lists(S, n - 1))

\* the collection obtained by adding the records of l, in order, to an empty one
RECURSIVE Built(_)
Built(l) ==
    IF l = <<>> THEN EmptyVector
    ELSE add(Built(SubSeq(l, 1, Len(l) - 1)), l[Len(l)]).vec

\* the argument collections of add, remove and replaceDevicesByType
ArgVectors == {Built(l) : l \in Lists(live, MaxArg)}

LiveTypes == {type(d) : d \in live}
LiveAddresses == {address(d) : d \in live} \cup {EmptyStr}
Formats == {AUDIO_FORMAT_DEFAULT, AUDIO_FORMAT_AC3, AUDIO_FORMAT_PCM_16_BIT}

\* the mask of the other direction with the same role bits
flip(t) ==
    IF audio_is_output_devices(t) THEN t \cup AUDIO_DEVICE_BIT_IN
    ELSE t \ AUDIO_DEVICE_BIT_IN

\* the masks getDevicesFromTypeMask and replaceDevicesByType are called with
Masks ==
    {AUDIO_DEVICE_NONE, AUDIO_DEVICE_BIT_IN}
        \cup LiveTypes
        \cup {flip(t) : t \in LiveTypes}
        \cup {BitOr(s, t) : s \in LiveTypes, t \in LiveTypes}

\* the lists of types getFirstExistingDevice and getFirstDevicesFromTypes are
\* called with
TypeLists ==
    {<<t>> : t \in LiveTypes} \cup {<<s, t>> : s \in LiveTypes, t \in LiveTypes}

\* the module handles getDevicesFromHwModule is called with
ModuleHandles == {AUDIO_MODULE_HANDLE_NONE, 1}

\* the record of a call: its name and its arguments
Call(name, item, other, devices, t, addr, format, types, moduleHandle) ==
    [name |-> name, item |-> item, other |-> other, devices |-> devices,
     type |-> t, address |-> addr, format |-> format, types |-> types,
     moduleHandle |-> moduleHandle]

\* a call with a record as its only argument
RecordCall(name, item) ==
    Call(name, item, 0, EmptyVector, {}, EmptyStr, 0, <<>>, 0)

\* a call with a collection as its only argument
VectorCall(name, devices) ==
    Call(name, 0, 0, devices, {}, EmptyStr, 0, <<>>, 0)

NoCall == RecordCall("none", 0)

---------------------------------------------------------------------------
(* The state machine *)

Init ==
    /\ heap \in Pools
    /\ mId = [d \in Dev |-> AUDIO_PORT_HANDLE_NONE]
    /\ mModule = [d \in Dev |-> AUDIO_MODULE_HANDLE_NONE]
    /\ mCurrentEncodedFormat = [d \in Dev |-> AUDIO_FORMAT_DEFAULT]
    /\ mNextUniqueId = 1
    /\ issued = {}
    /\ vec = EmptyVector
    /\ op = NoCall
    /\ ret = 0
    /\ found = 0
    /\ out = EmptyVector
    /\ flag = FALSE
    /\ refreshes = 0

\* AudioPort::getNextUniqueId(): the allocator's value, then incremented
getNextUniqueId == mNextUniqueId

\* DeviceDescriptor::attach(module) on record d
attach(d, module) ==
    /\ op = NoCall
    /\ mNextUniqueId <= MaxId
    /\ mModule' = [mModule EXCEPT ![d] = module]
    /\ mId' = [mId EXCEPT ![d] = getNextUniqueId]
    /\ mNextUniqueId' = mNextUniqueId + 1
    /\ issued' = issued \cup {getNextUniqueId}
    /\ op' = RecordCall("attach", d)
    /\ ret' = 0 /\ found' = 0 /\ out' = EmptyVector
    /\ flag' = FALSE /\ refreshes' = 0
    /\ UNCHANGED <<heap, vec, mCurrentEncodedFormat>>

\* detach() that drops the module and keeps the id
detach_keepsId(d) ==
    /\ op = NoCall
    /\ mModule' = [mModule EXCEPT ![d] = AUDIO_MODULE_HANDLE_NONE]
    /\ op' = RecordCall("detach", d)
    /\ ret' = 0 /\ found' = 0 /\ out' = EmptyVector
    /\ flag' = FALSE /\ refreshes' = 0
    /\ UNCHANGED <<heap, vec, mId, mNextUniqueId, issued, mCurrentEncodedFormat>>

\* DeviceDescriptor::detach() on record d
detach(d) ==
    /\ op = NoCall
    /\ mId' = [mId EXCEPT ![d] = AUDIO_PORT_HANDLE_NONE]
    /\ mModule' = [mModule EXCEPT ![d] = AUDIO_MODULE_HANDLE_NONE]
    /\ op' = RecordCall("detach", d)
    /\ ret' = 0 /\ found' = 0 /\ out' = EmptyVector
    /\ flag' = FALSE /\ refreshes' = 0
    /\ UNCHANGED <<heap, vec, mNextUniqueId, issued, mCurrentEncodedFormat>>

Attach == \E d \in live : attach(d, 1)
Detach == \E d \in live : detach(d)

\* vec.add(item)
Add ==
    \E item \in live : \E r \in {add(vec, item)} :
            /\ op = NoCall
            /\ vec' = r.vec
            /\ ret' = r.ret
            /\ refreshes' = r.refreshes
            /\ op' = RecordCall("add", item)
            /\ found' = 0 /\ out' = EmptyVector /\ flag' = FALSE
            /\ UNCHANGED <<heap, mId, mModule, mNextUniqueId, issued,
                           mCurrentEncodedFormat>>

\* vec.add(devices)
AddDevices ==
    /\ op = NoCall
    /\ \E devices \in ArgVectors : \E r \in {add_devices(vec, devices)} :
        /\ vec' = r.vec
        /\ refreshes' = r.refreshes
        /\ op' = VectorCall("add_devices", devices)
        /\ ret' = 0 /\ found' = 0 /\ out' = EmptyVector /\ flag' = FALSE
        /\ UNCHANGED <<heap, mId, mModule, mNextUniqueId, issued,
                       mCurrentEncodedFormat>>

\* vec.remove(item)
Remove ==
    \E item \in live : \E r \in {remove(vec, item)} :
            /\ op = NoCall
            /\ vec' = r.vec
            /\ ret' = r.ret
            /\ refreshes' = r.refreshes
            /\ op' = RecordCall("remove", item)
            /\ found' = 0 /\ out' = EmptyVector /\ flag' = FALSE
            /\ UNCHANGED <<heap, mId, mModule, mNextUniqueId, issued,
                           mCurrentEncodedFormat>>

\* vec.remove(devices)
RemoveDevices ==
    /\ op = NoCall
    /\ \E devices \in ArgVectors : \E r \in {remove_devices(vec, devices)} :
        /\ vec' = r.vec
        /\ refreshes' = r.refreshes
        /\ op' = VectorCall("remove_devices", devices)
        /\ ret' = 0 /\ found' = 0 /\ out' = EmptyVector /\ flag' = FALSE
        /\ UNCHANGED <<heap, mId, mModule, mNextUniqueId, issued,
                       mCurrentEncodedFormat>>

\* vec.replaceDevicesByType(typeToRemove, devicesToAdd)
ReplaceDevicesByType ==
    /\ op = NoCall
    /\ \E typeToRemove \in Masks, devicesToAdd \in ArgVectors :
        \E r \in {replaceDevicesByType(vec, typeToRemove, devicesToAdd)} :
        /\ vec' = r.vec
        /\ refreshes' = r.refreshes
        /\ op' = Call("replaceDevicesByType", 0, 0, devicesToAdd, typeToRemove,
                      EmptyStr, 0, <<>>, 0)
        /\ ret' = 0 /\ found' = 0 /\ out' = EmptyVector /\ flag' = FALSE
        /\ UNCHANGED <<heap, mId, mModule, mNextUniqueId, issued,
                       mCurrentEncodedFormat>>

\* vec.getDevice(type, address, format)
GetDevice ==
    /\ op = NoCall
    /\ \E t \in LiveTypes, addr \in LiveAddresses, format \in Formats :
        /\ found' = getDevice(vec, t, addr, format)
        /\ op' = Call("getDevice", 0, 0, EmptyVector, t, addr, format, <<>>, 0)
        /\ ret' = 0 /\ out' = EmptyVector /\ flag' = FALSE /\ refreshes' = 0
        /\ UNCHANGED <<heap, mId, mModule, mNextUniqueId, issued,
                       mCurrentEncodedFormat, vec>>

\* vec.getFirstExistingDevice(orderedTypes)
GetFirstExistingDevice ==
    /\ op = NoCall
    /\ \E orderedTypes \in TypeLists :
        /\ found' = getFirstExistingDevice(vec, orderedTypes)
        /\ op' = Call("getFirstExistingDevice", 0, 0, EmptyVector, {}, EmptyStr, 0,
                      orderedTypes, 0)
        /\ ret' = 0 /\ out' = EmptyVector /\ flag' = FALSE /\ refreshes' = 0
        /\ UNCHANGED <<heap, mId, mModule, mNextUniqueId, issued,
                       mCurrentEncodedFormat, vec>>

\* vec.getDevicesFromTypeMask(type)
GetDevicesFromTypeMask ==
    /\ op = NoCall
    /\ \E t \in Masks :
        /\ out' = getDevicesFromTypeMask(vec, t)
        /\ op' = Call("getDevicesFromTypeMask", 0, 0, EmptyVector, t, EmptyStr, 0, <<>>, 0)
        /\ ret' = 0 /\ found' = 0 /\ flag' = FALSE /\ refreshes' = 0
        /\ UNCHANGED <<heap, mId, mModule, mNextUniqueId, issued,
                       mCurrentEncodedFormat, vec>>

\* vec.getFirstDevicesFromTypes(orderedTypes)
GetFirstDevicesFromTypes ==
    /\ op = NoCall
    /\ \E orderedTypes \in TypeLists :
        /\ out' = getFirstDevicesFromTypes(vec, orderedTypes)
        /\ op' = Call("getFirstDevicesFromTypes", 0, 0, EmptyVector, {}, EmptyStr, 0,
                      orderedTypes, 0)
        /\ ret' = 0 /\ found' = 0 /\ flag' = FALSE /\ refreshes' = 0
        /\ UNCHANGED <<heap, mId, mModule, mNextUniqueId, issued,
                       mCurrentEncodedFormat, vec>>

\* vec.getDevicesFromHwModule(moduleHandle)
GetDevicesFromHwModule ==
    /\ op = NoCall
    /\ \E moduleHandle \in ModuleHandles :
        /\ out' = getDevicesFromHwModule(vec, moduleHandle)
        /\ op' = Call("getDevicesFromHwModule", 0, 0, EmptyVector, {}, EmptyStr, 0, <<>>,
                      moduleHandle)
        /\ ret' = 0 /\ found' = 0 /\ flag' = FALSE /\ refreshes' = 0
        /\ UNCHANGED <<heap, mId, mModule, mNextUniqueId, issued,
                       mCurrentEncodedFormat, vec>>

\* vec.filter(devices)
Filter ==
    /\ op = NoCall
    /\ \E devices \in ArgVectors :
        /\ out' = filter(vec, devices)
        /\ op' = VectorCall("filter", devices)
        /\ ret' = 0 /\ found' = 0 /\ flag' = FALSE /\ refreshes' = 0
        /\ UNCHANGED <<heap, mId, mModule, mNextUniqueId, issued,
                       mCurrentEncodedFormat, vec>>

\* vec.filterForEngine()
FilterForEngine ==
    /\ op = NoCall
    /\ out' = filterForEngine(vec)
    /\ op' = RecordCall("filterForEngine", 0)
    /\ ret' = 0 /\ found' = 0 /\ flag' = FALSE /\ refreshes' = 0
    /\ UNCHANGED <<heap, mId, mModule, mNextUniqueId, issued,
                   mCurrentEncodedFormat, vec>>

\* vec.containsAtLeastOne(devices); the argument may be vec itself
ContainsAtLeastOne ==
    /\ op = NoCall
    /\ \E devices \in ArgVectors \cup {vec} :
        /\ flag' = containsAtLeastOne(vec, devices)
        /\ op' = VectorCall("containsAtLeastOne", devices)
        /\ ret' = 0 /\ found' = 0 /\ out' = EmptyVector /\ refreshes' = 0
        /\ UNCHANGED <<heap, mId, mModule, mNextUniqueId, issued,
                       mCurrentEncodedFormat, vec>>

\* vec.containsAllDevices(devices); the argument may be vec itself
ContainsAllDevices ==
    /\ op = NoCall
    /\ \E devices \in ArgVectors \cup {vec} :
        /\ flag' = containsAllDevices(vec, devices)
        /\ op' = VectorCall("containsAllDevices", devices)
        /\ ret' = 0 /\ found' = 0 /\ out' = EmptyVector /\ refreshes' = 0
        /\ UNCHANGED <<heap, mId, mModule, mNextUniqueId, issued,
                       mCurrentEncodedFormat, vec>>

\* the call has returned and the caller has dropped its result
Return ==
    /\ op # NoCall
    /\ op' = NoCall
    /\ ret' = 0 /\ found' = 0 /\ out' = EmptyVector
    /\ flag' = FALSE /\ refreshes' = 0
    /\ UNCHANGED <<heap, mId, mModule, mNextUniqueId, issued,
                   mCurrentEncodedFormat, vec>>

Next ==
    \/ Attach
    \/ Detach
    \/ Add
    \/ AddDevices
    \/ Remove
    \/ RemoveDevices
    \/ ReplaceDevicesByType
    \/ GetDevice
    \/ GetFirstExistingDevice
    \/ GetDevicesFromTypeMask
    \/ GetFirstDevicesFromTypes
    \/ GetDevicesFromHwModule
    \/ Filter
    \/ FilterForEngine
    \/ ContainsAtLeastOne
    \/ ContainsAllDevices
    \/ Return

Spec == Init /\ [][Next]_vars

---------------------------------------------------------------------------
(* The records alone: no collection is used *)

RecordInit ==
    /\ heap \in RecordPools
    /\ mId = [d \in Dev |-> AUDIO_PORT_HANDLE_NONE]
    /\ mModule = [d \in Dev |-> AUDIO_MODULE_HANDLE_NONE]
    /\ mCurrentEncodedFormat = [d \in Dev |-> AUDIO_FORMAT_DEFAULT]
    /\ mNextUniqueId = 1
    /\ issued = {}
    /\ vec = EmptyVector
    /\ op = NoCall
    /\ ret = 0
    /\ found = 0
    /\ out = EmptyVector
    /\ flag = FALSE
    /\ refreshes = 0

\* DeviceDescriptor::setEncodedFormat(format) on record d
setEncodedFormat(d, format) ==
    /\ op = NoCall
    /\ mCurrentEncodedFormat' = [mCurrentEncodedFormat EXCEPT ![d] = format]
    /\ op' = Call("setEncodedFormat", d, 0, EmptyVector, {}, EmptyStr, format, <<>>, 0)
    /\ ret' = 0 /\ found' = 0 /\ out' = EmptyVector
    /\ flag' = FALSE /\ refreshes' = 0
    /\ UNCHANGED <<heap, vec, mId, mModule, mNextUniqueId, issued>>

SetEncodedFormat == \E d \in live, format \in Formats : setEncodedFormat(d, format)

\* d.equals(other); other may be the null reference
Equals ==
    /\ op = NoCall
    /\ \E d \in live, other \in live \cup {0} :
        /\ flag' = equals(d, other)
        /\ op' = Call("equals", d, other, EmptyVector, {}, EmptyStr, 0, <<>>, 0)
        /\ ret' = 0 /\ found' = 0 /\ out' = EmptyVector /\ refreshes' = 0
        /\ UNCHANGED <<heap, mId, mModule, mNextUniqueId, issued,
                       mCurrentEncodedFormat, vec>>

\* d.supportsFormat(format)
SupportsFormat ==
    /\ op = NoCall
    /\ \E d \in live, format \in Formats \cup {AUDIO_FORMAT_IEC61937} :
        /\ flag' = supportsFormat(d, format)
        /\ op' = Call("supportsFormat", d, 0, EmptyVector, {}, EmptyStr, format,
                      <<>>, 0)
        /\ ret' = 0 /\ found' = 0 /\ out' = EmptyVector /\ refreshes' = 0
        /\ UNCHANGED <<heap, mId, mModule, mNextUniqueId, issued,
                       mCurrentEncodedFormat, vec>>

\* d.hasCurrentEncodedFormat()
HasCurrentEncodedFormat ==
    /\ op = NoCall
    /\ \E d \in live :
        /\ flag' = hasCurrentEncodedFormat(d)
        /\ op' = RecordCall("hasCurrentEncodedFormat", d)
        /\ ret' = 0 /\ found' = 0 /\ out' = EmptyVector /\ refreshes' = 0
        /\ UNCHANGED <<heap, mId, mModule, mNextUniqueId, issued,
                       mCurrentEncodedFormat, vec>>

RecordNext ==
    \/ Attach
    \/ Detach
    \/ SetEncodedFormat
    \/ Equals
    \/ SupportsFormat
    \/ HasCurrentEncodedFormat
    \/ Return

RecordSpec == RecordInit /\ [][RecordNext]_vars

---------------------------------------------------------------------------
(* Properties *)

\* the members of a collection
Members(v) == {v.items[i] : i \in DOMAIN v.items}

\* a record of type t answers the mask: same direction, a common role bit
MatchesMask(t, mask) ==
    /\ (31 \in t) = (31 \in mask)
    /\ (t \ {31}) \cap (mask \ {31}) # {}

\* a member answers getDevice(t, addr, format)
Qualifies(d, t, addr, format) ==
    /\ type(d) = t
    /\ IF format = AUDIO_FORMAT_DEFAULT
       THEN addr = EmptyStr \/ address(d) = addr
       ELSE supportsFormat(d, format)

\* C1: in every reachable state the cached aggregate mask of the collection has
\* exactly the bits that some member's type has (no bit when it is empty).
C1_MaskIsOrOfMembers ==
    \A b \in BitPositions :
        (b \in vec.mDeviceTypes) = (\E d \in Members(vec) : b \in type(d))

\* a remove(item) took a record out of a collection of three and the bits of
\* its type left the mask
C1_Witness ==
    /\ op.name = "remove"
    /\ ret >= 0
    /\ Len(vec.items) = 2
    /\ ~(type(op.item) \subseteq vec.mDeviceTypes)

\* C2: in every reachable state no two positions of the collection hold records
\* that are equal by equals().
C2_NoTwoEqualMembers ==
    \A i, j \in DOMAIN vec.items :
        i # j => ~equals(vec.items[i], vec.items[j])

\* an add(devices) was given a record that is not a member and equals one
C2_Witness ==
    /\ op.name = "add_devices"
    /\ \E d \in Members(op.devices) :
           /\ d \notin Members(vec)
           /\ \E m \in Members(vec) : equals(m, d)

\* C3: in every reachable state every member is before its successor in the
\* order of do_compare.
C3_AlwaysSorted ==
    \A i \in 1..(Len(vec.items) - 1) :
        do_compare(vec.items[i], vec.items[i + 1]) < 0

\* C4: getFirstExistingDevice([role]) on a collection whose members of that role
\* are all attached returns the member of the role with the highest id.
C4_HighestIdWins ==
    (/\ op.name = "getFirstExistingDevice"
     /\ Len(op.types) = 1
     /\ \E m \in Members(vec) : type(m) = op.types[1]
     /\ \A m \in Members(vec) :
            type(m) = op.types[1] => mId[m] # AUDIO_PORT_HANDLE_NONE)
    => /\ found \in Members(vec)
       /\ type(found) = op.types[1]
       /\ \A m \in Members(vec) : type(m) = op.types[1] => mId[m] <= mId[found]

\* C5: getDevice returns the qualifying member at the lowest position, and the
\* null reference exactly when no member qualifies.
C5_FirstQualifying ==
    op.name = "getDevice" =>
        LET Q == {i \in DOMAIN vec.items :
                      Qualifies(vec.items[i], op.type, op.address, op.format)}
        IN  IF Q = {} THEN found = 0
            ELSE \E i \in Q : found = vec.items[i] /\ \A j \in Q : i <= j

\* C6: add(item) on a collection that holds a member equal to item returns a
\* negative result and leaves the items and the mask as they were.
C6_AddOfPresentChangesNothing ==
    [][ (/\ op'.name = "add"
         /\ \E m \in Members(vec) : equals(m, op'.item))
        => (ret' < 0 /\ vec' = vec) ]_vars

\* a second record, equal to the only member, was rejected
C6_Witness ==
    /\ op.name = "add"
    /\ ret < 0
    /\ Len(vec.items) = 1
    /\ vec.items[1] # op.item
    /\ equals(vec.items[1], op.item)

\* C7: remove(item) on a collection with no member equal to item returns a
\* negative result and changes nothing; otherwise the one equal member is taken
\* out, the others keep their order and the result is not negative.
C7_Remove ==
    [][ op'.name = "remove" =>
          LET E == {i \in DOMAIN vec.items : equals(vec.items[i], op'.item)}
          IN  IF E = {} THEN ret' < 0 /\ vec' = vec
              ELSE /\ Cardinality(E) = 1
                   /\ ret' >= 0
                   /\ \E i \in E :
                          vec'.items = SubSeq(vec.items, 1, i - 1)
                                           \o SubSeq(vec.items, i + 1, Len(vec.items)) ]_vars

\* a remove(item) took out the second of three members
C7_Witness ==
    /\ op.name = "remove"
    /\ ret = 1
    /\ Len(vec.items) = 2
    /\ \A m \in Members(vec) : ~equals(m, op.item)

\* C8: replaceDevicesByType changes nothing unless a member answers the mask and
\* the replacements are not empty; when it takes effect every replacement has an
\* equal member afterwards and every member that answers the mask equals a
\* replacement.
C8_Replace ==
    [][ op'.name = "replaceDevicesByType" =>
          IF \/ ~(\E m \in Members(vec) : MatchesMask(type(m), op'.type))
             \/ op'.devices.items = <<>>
          THEN vec' = vec
          ELSE /\ \A r \in Members(op'.devices) :
                      \E m \in Members(vec') : equals(m, r)
               /\ \A m \in Members(vec') :
                      MatchesMask(type(m), op'.type)
                          => \E r \in Members(op'.devices) : equals(m, r) ]_vars

\* a replaceDevicesByType took effect and left a member that answers the mask:
\* had it changed nothing, the replacements would be empty
C8_Witness ==
    /\ op.name = "replaceDevicesByType"
    /\ op.devices.items # <<>>
    /\ \E m \in Members(vec) : MatchesMask(type(m), op.type)
    /\ \E m \in Members(vec) : ~MatchesMask(type(m), op.type)

\* C9: getDevicesFromTypeMask(mask) returns, once each, exactly the members of
\* the direction of mask that share a role bit with it: none of the other
\* direction, and none at all for a mask without role bits.
C9_TypeMask ==
    op.name = "getDevicesFromTypeMask" =>
        /\ Members(out) = {m \in Members(vec) : MatchesMask(type(m), op.type)}
        /\ Len(out.items) = Cardinality(Members(out))
        /\ \A m \in Members(out) : (31 \in type(m)) = (31 \in op.type)
        /\ (op.type \ {31} = {}) => out.items = <<>>

\* a member was returned and a member with the same role bit and the other
\* direction was not
C9_Witness ==
    /\ op.name = "getDevicesFromTypeMask"
    /\ out.items # <<>>
    /\ \E m \in Members(vec) \ Members(out) :
           (type(m) \ {31}) \cap (op.type \ {31}) # {}

\* C10: no two records share an id other than the sentinel, a record without a
\* module has the sentinel id, and every attach gives its record an id that is
\* not the sentinel and is greater than every id handed out before.
C10_Ids ==
    /\ [](/\ \A d, e \in Dev :
                (d # e /\ mId[d] # AUDIO_PORT_HANDLE_NONE) => mId[d] # mId[e]
          /\ \A d \in Dev :
                mModule[d] = AUDIO_MODULE_HANDLE_NONE => mId[d] = AUDIO_PORT_HANDLE_NONE)
    /\ [][ op'.name = "attach" =>
             /\ mId'[op'.item] # AUDIO_PORT_HANDLE_NONE
             /\ \A i \in issued : i < mId'[op'.item]
             /\ \A d \in Dev \ {op'.item} : mId'[d] = mId[d] ]_vars

\* a record was attached after another one, which is still attached, and a
\* third record of the run was detached
C10_Witness ==
    /\ op.name = "attach"
    /\ \E d \in live : mId[d] # AUDIO_PORT_HANDLE_NONE /\ mId[d] < mId[op.item]
    /\ \E d \in live : mId[d] = AUDIO_PORT_HANDLE_NONE

\* the declared formats of a record, as a set
FormatSet(d) == {encodedFormats(d)[i] : i \in DOMAIN encodedFormats(d)}

\* C11: equals(A, B) is true exactly when B is not null and A and B have the
\* same type, the same address and the same set of encoded formats, whatever
\* their ids and tag names; it gives the same answer with A and B exchanged and
\* is true of a record and itself.
C11_Equals ==
    op.name = "equals" =>
        /\ op.other = 0 => ~flag
        /\ op.other # 0 =>
              /\ flag = (/\ type(op.item) = type(op.other)
                         /\ address(op.item) = address(op.other)
                         /\ FormatSet(op.item) \subseteq FormatSet(op.other)
                         /\ FormatSet(op.other) \subseteq FormatSet(op.item))
              /\ flag = equals(op.other, op.item)
        /\ op.other = op.item => flag

\* two records were found equal that differ in id, in tag name and in the order
\* and repetition of their formats
C11_Witness ==
    /\ op.name = "equals"
    /\ flag
    /\ op.other # 0
    /\ mId[op.item] # mId[op.other]
    /\ Catalogue[op.item].mTagName # Catalogue[op.other].mTagName
    /\ Len(encodedFormats(op.item)) # Len(encodedFormats(op.other))

\* the members of v that equal some member of w
Common(v, w) == {m \in Members(v) : \E b \in Members(w) : equals(m, b)}

\* C12: A.filter(B) holds, once each, exactly the members of A that equal a
\* member of B; filtering the result by B again gives the same members; and
\* B.filter(A) has as many members, each equal to a member of A.filter(B) and
\* the other way round.
C12_Filter ==
    op.name = "filter" =>
        LET same(again, back) ==
                /\ Members(again) = Members(out)
                /\ Len(back.items) = Len(out.items)
                /\ \A m \in Members(out) : \E b \in Members(back) : equals(m, b)
                /\ \A b \in Members(back) : \E m \in Members(out) : equals(b, m)
        IN  /\ Members(out) = Common(vec, op.devices)
            /\ Len(out.items) = Cardinality(Members(out))
            /\ same(filter(out, op.devices), filter(op.devices, vec))

\* a filter kept a member that equals a record of the argument without being
\* that record, and dropped another member
C12_Witness ==
    /\ op.name = "filter"
    /\ \E m \in Members(out) : m \notin Members(op.devices)
    /\ Members(vec) \ Members(out) # {}
    /\ Members(op.devices) \ Members(vec) # {}

\* C13: A.containsAllDevices(B) is true exactly when every member of B equals
\* a member of A, so it is true of A itself and of the empty collection;
\* A.containsAtLeastOne(B) is true exactly when some member of B equals a member
\* of A, so it is false of the empty collection.
C13_Contains ==
    /\ op.name = "containsAllDevices" =>
          /\ flag = (\A b \in Members(op.devices) :
                         \E m \in Members(vec) : equals(m, b))
          /\ op.devices = vec => flag
          /\ op.devices.items = <<>> => flag
    /\ op.name = "containsAtLeastOne" =>
          /\ flag = (\E b \in Members(op.devices) :
                         \E m \in Members(vec) : equals(m, b))
          /\ op.devices.items = <<>> => ~flag

\* containsAllDevices was true of an argument smaller than the collection that
\* holds a record equal to a member without being one
C13_Witness ==
    /\ op.name = "containsAllDevices"
    /\ flag
    /\ op.devices.items # <<>>
    /\ Len(op.devices.items) < Len(vec.items)
    /\ \E b \in Members(op.devices) : b \notin Members(vec)

\* C14: filterForEngine() returns, once each, exactly the members that are not
\* remote submix devices and the remote submix members whose address is "0",
\* and leaves the collection as it was.
C14_FilterForEngine ==
    /\ [](op.name = "filterForEngine" =>
            /\ Members(out) =
                  {m \in Members(vec) :
                      \/ type(m) \notin {AUDIO_DEVICE_OUT_REMOTE_SUBMIX,
                                          AUDIO_DEVICE_IN_REMOTE_SUBMIX}
                      \/ address(m) = Str0}
            /\ Len(out.items) = Cardinality(Members(out)))
    /\ [][op'.name = "filterForEngine" => vec' = vec]_vars

\* a remote submix member with address "0" and another member were kept and
\* a remote submix member with address "1" was dropped
C14_Witness ==
    /\ op.name = "filterForEngine"
    /\ \E m \in Members(out) :
           type(m) = AUDIO_DEVICE_OUT_REMOTE_SUBMIX /\ address(m) = Str0
    /\ \E m \in Members(out) : type(m) = AUDIO_DEVICE_OUT_WIRED_HEADSET
    /\ \E m \in Members(vec) \ Members(out) :
           type(m) = AUDIO_DEVICE_OUT_REMOTE_SUBMIX /\ address(m) = Str1

\* the collection after add(record) for each record of l, in order
RECURSIVE AddEach(_, _)
AddEach(v, l) ==
    IF l = <<>> THEN v ELSE AddEach(add(v, Head(l)).vec, Tail(l))

\* C15: after A.add(B) the items and the mask of A are those that add(record)
\* for each record of B, in order, leaves; the members are the previous ones and
\* the records of B that equalled no member, each once.
C15_BulkAdd ==
    [][ op'.name = "add_devices" =>
          /\ vec' = AddEach(vec, op'.devices.items)
          /\ Members(vec') =
                Members(vec) \cup
                    {b \in Members(op'.devices) :
                        \A m \in Members(vec) : ~equals(m, b)}
          /\ Len(vec'.items) = Cardinality(Members(vec')) ]_vars

\* a bulk add put in one record of its argument and skipped another that
\* equals a member
C15_Witness ==
    /\ op.name = "add_devices"
    /\ refreshes = 1
    /\ Len(op.devices.items) = 2
    /\ \E b \in Members(op.devices) : b \notin Members(vec)
    /\ \E b \in Members(op.devices) : b \in Members(vec)

\* C16: a record constructed without formats has the formats AC3 and IEC61937
\* when its type is HDMI out and none otherwise; supportsFormat(f) is true
\* exactly when the record has no formats or f is one of them; and for the HDMI
\* record constructed without formats hasCurrentEncodedFormat() is true exactly
\* when its current encoded format is not the default.
C16_HdmiDefaults ==
    /\ \A d \in live :
          Config[d][2] = <<>> =>
              IF type(d) = AUDIO_DEVICE_OUT_HDMI
              THEN FormatSet(d) = {AUDIO_FORMAT_AC3, AUDIO_FORMAT_IEC61937}
              ELSE FormatSet(d) = {}
    /\ op.name = "supportsFormat" =>
          flag = (FormatSet(op.item) = {} \/ op.format \in FormatSet(op.item))
    /\ (/\ op.name = "hasCurrentEncodedFormat"
        /\ type(op.item) = AUDIO_DEVICE_OUT_HDMI
        /\ Config[op.item][2] = <<>>)
       => flag = (mCurrentEncodedFormat[op.item] # AUDIO_FORMAT_DEFAULT)

\* C17: with the records as they are in any reachable state, do_compare(L, R)
\* and do_compare(R, L) have opposite signs, do_compare(L, R) is 0 only for
\* L = R, L before R and R before S give L before S, and of two records of one
\* type with different ids the one with the larger id is before the other.
C17_StrictTotalOrder ==
    \A l, r \in live :
        /\ (do_compare(l, r) = 0) = (l = r)
        /\ (do_compare(l, r) < 0) = (do_compare(r, l) > 0)
        /\ (type(l) = type(r) /\ mId[l] > mId[r]) => do_compare(l, r) < 0
        /\ \A s \in live :
              (do_compare(l, r) < 0 /\ do_compare(r, s) < 0) => do_compare(l, s) < 0

\* three records of one type: two attached one after the other and a detached
\* one with the address of an attached one
C17_Witness ==
    \E l, r, s \in live :
        /\ type(l) = type(r) /\ type(r) = type(s)
        /\ mId[l] > mId[r] /\ mId[r] > mId[s]
        /\ address(s) = address(l) /\ address(r) # address(l)
        /\ do_compare(l, r) < 0 /\ do_compare(r, s) < 0

\* C18: a record returned by getDevice(type, address, format) is a member of
\* the requested type; with the default format its address is the requested one
\* unless none was requested, whatever formats it declares; with another format
\* it supports that format, whatever its address.  The null reference is
\* returned only when no member qualifies in this way.
C18_TriState ==
    op.name = "getDevice" =>
        IF found # 0
        THEN /\ found \in Members(vec)
             /\ type(found) = op.type
             /\ op.format = AUDIO_FORMAT_DEFAULT =>
                    (op.address = EmptyStr \/ address(found) = op.address)
             /\ op.format # AUDIO_FORMAT_DEFAULT => supportsFormat(found, op.format)
        ELSE \A m \in Members(vec) :
                ~Qualifies(m, op.type, op.address, op.format)

\* a format was given and the record returned has another address than the
\* one asked for
C18_Witness ==
    /\ op.name = "getDevice"
    /\ found # 0
    /\ op.format # AUDIO_FORMAT_DEFAULT
    /\ op.address # EmptyStr
    /\ address(found) # op.address

\* the calls that add or remove records
Mutating == {"add", "add_devices", "remove", "remove_devices"}

\* C19: a call of add or remove, single or bulk, runs refreshTypes exactly once
\* when it changes the items of the collection, and not at all otherwise, however
\* many records it adds or removes; when it returns, the mask is the OR of the
\* members' types.
C19_RefreshOnce ==
    [][ op'.name \in Mutating =>
          /\ refreshes' = IF vec'.items # vec.items THEN 1 ELSE 0
          /\ vec'.mDeviceTypes = refreshTypes(vec').mDeviceTypes ]_vars

\* the calls that return a collection
Queries ==
    {"filter", "filterForEngine", "getDevicesFromTypeMask",
     "getFirstDevicesFromTypes", "getDevicesFromHwModule"}

\* C20: the collection a query returns holds members of the receiver only, no
\* two of them equal, and its mask is the OR of their types; the query leaves
\* the items and the mask of the receiver as they were.
C20_QueryResults ==
    /\ [](op.name \in Queries =>
            /\ Members(out) \subseteq Members(vec)
            /\ \A i, j \in DOMAIN out.items :
                   i # j => ~equals(out.items[i], out.items[j])
            /\ \A b \in BitPositions :
                   (b \in out.mDeviceTypes) = (\E d \in Members(out) : b \in type(d)))
    /\ [][op'.name \in Queries => vec' = vec]_vars

\* getDevicesFromHwModule returned the attached members of a collection that
\* also holds a detached member of another type
C20_Witness ==
    /\ op.name = "getDevicesFromHwModule"
    /\ op.moduleHandle # AUDIO_MODULE_HANDLE_NONE
    /\ out.items # <<>>
    /\ out.mDeviceTypes # vec.mDeviceTypes

====
